---- MODULE Spec2Model ----
(***************************************************************************)
(* HikStatus: the background monitor (background_monitor.py), the monitor  *)
(* manager (monitor_manager.py) and the configuration endpoint (api.py).   *)
(*                                                                         *)
(* Time is in seconds.  db is the committed content of the SQLite store.   *)
(* db.session is modelled as what the source shows: one session object per *)
(* thread, whose commit() persists every pending change of that session,   *)
(* whichever function staged it (the comment at background_monitor.py:722  *)
(* relies on exactly that).  Each handler of a thread runs as one step;    *)
(* the store states it commits on the way are kept in last.commits.        *)
(* Display-only columns (camera_ip, camera_name, last_check,               *)
(* down_alert_sent) are left out.                                          *)
(***************************************************************************)
EXTENDS Integers, Sequences, FiniteSets, TLC

VARIABLES
    clock,      \* wall clock (get_tehran_time), seconds
    appcfg,     \* app.config: the live configuration
    db,         \* committed store: [cams: set of CameraState rows, checks: CheckRecord numbers]
    mon,        \* BackgroundMonitor instances, by creation number
    mgr,        \* monitor_manager: monitor_thread and the caller inside start_monitor_thread
    sentFor,    \* history: digests delivered on account of each camera in its current downtime
    ups,        \* history: the cameras that have recovered (camera_up) at least once
    last,       \* history: what the latest handler did
    faults,     \* history: exceptions raised so far by the store
    episodes,   \* history: per channel, the run of consecutive answers that were not Online
    env         \* the environment of the run (fixed): NVR behaviour, mail, faults, operator

vars == <<clock, appcfg, db, mon, mgr, sentFor, ups, last, faults, episodes, env>>

-----------------------------------------------------------------------------
(* Bounds *)

\* cycles of the general runs (the horizon is Horizon polling intervals)
Horizon == 3
\* cycles of the long single-camera runs with the default timings
HorizonLong == 107
\* monitor instances created in one run (the first start plus restarts)
MaxMonitors == 2
\* exceptions the store raises in one run
MaxFaults == 1
\* cycles of the runs in which a camera that stays down is followed until it is muted
HorizonMute == 5
\* cycles of the scripted runs: the camera is online in the first OnlineCycles
\* cycles and not online afterwards
HorizonFirstAlert == 22
OnlineCycles == 5

(* Program constants *)

polling_interval == 60
request_timeout == 10
startup_sleep == 5
join_timeout == 10
DefaultFirstDelayMinutes == 15
DefaultFrequencyMinutes == 30
DefaultMuteAfter == 3
\* timedelta(minutes=60) of __init__, replaced when the configuration is loaded
InitFrequencyMinutes == 60

\* nullable DateTime column without a value
None == -1

Minutes(n) == n * 60

Monitors == 1..MaxMonitors

-----------------------------------------------------------------------------
(* Keys: f"{nvr_ip}-{channel_id}" as a sequence of characters *)

NvrA == <<"n", "1">>
NvrB == <<"n", "1", "0">>
\* an NVR configured by a host name that contains a dash
NvrC == <<"n", "1", "-", "1">>
Ch1 == <<"1">>
Ch2 == <<"2">>
\* the placeholder channel id of an NVR-level error entry
Ch0 == <<"0">>

AllIds == {<<n, c>> : n \in {NvrA, NvrB}, c \in {Ch0, Ch1, Ch2}}

Key(nvr_ip, channel_id) == nvr_ip \o <<"-">> \o channel_id

StartsWith(k, p) == Len(k) >= Len(p) /\ SubSeq(k, 1, Len(p)) = p

\* key.split('-', 1)
Split(k) ==
    LET i == CHOOSE j \in 1..Len(k) : k[j] = "-" /\ \A h \in 1..(j - 1) : k[h] # "-"
    IN  <<SubSeq(k, 1, i - 1), SubSeq(k, i + 1, Len(k))>>

RowKey(r) == Key(r.nvr_ip, r.channel_id)
RowId(r) == <<r.nvr_ip, r.channel_id>>

RECURSIVE SetToSeq(_)
SetToSeq(S) ==
    IF S = {} THEN <<>>
    ELSE LET x == CHOOSE y \in S : TRUE IN <<x>> \o SetToSeq(S \ {x})

Range(f) == {f[x] : x \in DOMAIN f}

EmptyMap == [k \in {} |-> 0]

-----------------------------------------------------------------------------
(* The session: db.session of one thread *)

\* dup: a second CameraState object with the (nvr_ip, channel_id) of an existing row
\* is pending, so that the next flush violates unique_nvr_channel;
\* failed: save_state_to_db has ended in its except branch
Session(store) ==
    [store |-> store, work |-> store, commits |-> <<>>, events |-> <<>>,
     dup |-> FALSE, failed |-> FALSE]

\* db.session.commit()
Commit(s) == [s EXCEPT !.store = s.work, !.commits = Append(s.commits, s.work)]

\* db.session.rollback()
Rollback(s) == [s EXCEPT !.work = s.store, !.dup = FALSE]

\* variant: the AlertLog row is written without committing what else is pending
log_event_OwnCommit(s, event_type, key) ==
    [s EXCEPT !.events = Append(s.events, <<event_type, key>>)]

\* BackgroundMonitor.log_event: add the AlertLog row, commit the session; a commit
\* that raises is caught, and the session, the AlertLog row included, is rolled back
log_event(s, event_type, key) ==
    IF s.dup THEN Rollback(s)
    ELSE LET c == Commit(s) IN [c EXCEPT !.events = Append(s.events, <<event_type, key>>)]

\* an AlertLog row written through another thread's or context's own commit
\* with nothing else pending (no effect on the camera rows)
Logged(s, event_type, key) == [s EXCEPT !.events = Append(s.events, <<event_type, key>>)]

-----------------------------------------------------------------------------
(* Snapshot of the store taken by run(): current_db_state *)

SnapshotOf(cams) ==
    [k \in {RowKey(r) : r \in cams} |->
        LET r == CHOOSE q \in cams : RowKey(q) = k
        IN  [status |-> r.status, last_online |-> r.last_online,
             down_check_count |-> r.down_check_count]]

-----------------------------------------------------------------------------
(* NVR Poller: poll_nvr_status and update_nvr_state_on_error *)

\* dict update: entries of new replace or extend those of pr
Put(pr, new) ==
    [k \in (DOMAIN pr) \cup (DOMAIN new) |-> IF k \in DOMAIN new THEN new[k] ELSE pr[k]]

\* prev_state.get(field, default) with prev_state = current_db_state.get(key, {})
PrevGet(cds, key, field, default) ==
    IF key \in DOMAIN cds THEN cds[key][field] ELSE default

OnlineEntry(now) ==
    [status |-> "Online", last_online |-> now, down_check_count |-> 0]

\* variant: an offline poll that does not count the failed check
OfflineEntry_NoCount(cds, key, now) ==
    [status |-> "Offline",
     last_online |-> PrevGet(cds, key, "last_online", now),
     down_check_count |-> PrevGet(cds, key, "down_check_count", 0)]

OfflineEntry(cds, key, now) ==
    [status |-> "Offline",
     last_online |-> PrevGet(cds, key, "last_online", now),
     down_check_count |-> PrevGet(cds, key, "down_check_count", 0) + 1]

\* variant: the error entry always keeps the snapshot's last_online
ErrorEntry_KeepClock(cds, key, new_status, timestamp) ==
    [status |-> new_status,
     last_online |-> PrevGet(cds, key, "last_online", timestamp),
     down_check_count |-> PrevGet(cds, key, "down_check_count", 0) + 1]

\* the entry update_nvr_state_on_error writes for one key (both branches compute the same)
ErrorEntry(cds, key, new_status, timestamp) ==
    [status |-> new_status,
     last_online |->
        IF PrevGet(cds, key, "status", "") = "Online" \/ key \notin DOMAIN cds
        THEN timestamp
        ELSE PrevGet(cds, key, "last_online", timestamp),
     down_check_count |-> PrevGet(cds, key, "down_check_count", 0) + 1]

update_nvr_state_on_error(nvr_ip, new_status, timestamp, poll_results, cds, nvr_configs) ==
    IF nvr_ip \notin Range(nvr_configs) THEN poll_results
    ELSE LET keys_to_update == {k \in DOMAIN cds : StartsWith(k, nvr_ip \o <<"-">>)}
         IN  IF keys_to_update = {}
             THEN LET key == Key(nvr_ip, Ch0)
                  IN  Put(poll_results,
                          [k \in {key} |-> ErrorEntry(cds, key, new_status, timestamp)])
             ELSE Put(poll_results,
                      [k \in keys_to_update |-> ErrorEntry(cds, k, new_status, timestamp)])

\* outcome: [kind |-> "ok" | "http" | "conn", chans |-> [channel id -> online?]]
\* result: [results |-> poll_results after the call, events |-> the events logged]
poll_nvr_status(nvr_ip, outcome, now, poll_results, cds, nvr_configs) ==
    IF outcome.kind # "ok"
    THEN [results |-> update_nvr_state_on_error(nvr_ip, "System Error", now,
                                                poll_results, cds, nvr_configs),
          events |-> <<<<"nvr_error", nvr_ip>>>>]
    ELSE LET reported == DOMAIN outcome.chans
             entries == [k \in {Key(nvr_ip, c) : c \in reported} |->
                            LET c == CHOOSE d \in reported : Key(nvr_ip, d) = k
                            IN  IF outcome.chans[c] THEN OnlineEntry(now)
                                ELSE OfflineEntry(cds, k, now)]
             filled == Put(poll_results, entries)
             first_down == {k \in DOMAIN entries :
                              entries[k].status = "Offline" /\ entries[k].down_check_count = 1}
             down_seq == SetToSeq(first_down)
         IN  [results |->
                 IF reported = {}
                 THEN update_nvr_state_on_error(nvr_ip, "System Error", now,
                                                filled, cds, nvr_configs)
                 ELSE filled,
              events |-> [i \in 1..Len(down_seq) |-> <<"camera_down", down_seq[i]>>]]

\* the summary poll_nvr_status returns: the channels counted in the answer and the
\* status icon ("denied" for the no-entry sign, "warning" for the warning sign,
\* "ok" for the check mark)
Summary(nvr_ip, outcome) ==
    LET total == IF outcome.kind = "ok" THEN Cardinality(DOMAIN outcome.chans) ELSE 0
        online == IF outcome.kind = "ok"
                  THEN Cardinality({c \in DOMAIN outcome.chans : outcome.chans[c]})
                  ELSE 0
    IN  [ip |-> nvr_ip, total |-> total, online |-> online,
         status |-> IF outcome.kind = "http" THEN "denied"
                    ELSE IF outcome.kind = "conn" THEN "warning"
                    ELSE IF online = total THEN "ok" ELSE "warning"]

\* display_status_summary: whether it prints ALL SYSTEMS OK
all_ok(nvr_summaries) == \A summary \in nvr_summaries : summary.status = "ok"

-----------------------------------------------------------------------------
(* State Reconciler: save_state_to_db *)

\* CameraState(nvr_ip=..., channel_id=..., last_online=now) with the column defaults
NewCameraState(nvr_ip, channel_id, now) ==
    [nvr_ip |-> nvr_ip, channel_id |-> channel_id, status |-> "",
     last_online |-> now, down_check_count |-> 0,
     alert_email_count |-> 0, is_muted |-> FALSE, last_alert_time |-> None]

\* variant: a recovery that keeps the alert counter
RecoveryReset_KeepCount(cam) ==
    [cam EXCEPT !.is_muted = FALSE, !.last_alert_time = None]

\* variant: a recovery that keeps the mute flag
RecoveryReset_KeepMute(cam) ==
    [cam EXCEPT !.alert_email_count = 0, !.last_alert_time = None]

\* "Reset alert state"
RecoveryReset(cam) ==
    [cam EXCEPT !.alert_email_count = 0, !.is_muted = FALSE, !.last_alert_time = None]

\* "Check for First Offline": the last_online the record gets
ReconciledLastOnline(cam, state, now) ==
    IF cam.status = "Online" /\ state.status # "Online" THEN now ELSE state.last_online

\* "Update all fields"
ApplyPoll(cam, state, last_online_dt) ==
    [cam EXCEPT !.status = state.status,
                !.last_online = last_online_dt,
                !.down_check_count = state.down_check_count]

\* the body of the loop over nvr_cam_keys for one key
SaveCamera(s, key, state, cam_state_map, now) ==
    LET parts == Split(key)
        cam0 == IF key \in DOMAIN cam_state_map
                THEN CHOOSE r \in s.work.cams : RowId(r) = cam_state_map[key]
                ELSE NewCameraState(parts[1], parts[2], now)
        was_offline == cam0.status # "" /\ cam0.status # "Online"
        is_online == state.status = "Online"
        recovered == was_offline /\ is_online
        s1 == IF recovered THEN log_event(s, "camera_up", key) ELSE s
        cam1 == IF recovered THEN RecoveryReset(cam0) ELSE cam0
        cam2 == ApplyPoll(cam1, state, ReconciledLastOnline(cam0, state, now))
        clash == /\ key \notin DOMAIN cam_state_map
                 /\ \E r \in s.work.cams : RowId(r) = <<parts[1], parts[2]>>
    IN  IF clash THEN [s EXCEPT !.dup = TRUE]
        ELSE [s1 EXCEPT !.work.cams = (s1.work.cams \ {cam0}) \cup {cam2}]

RECURSIVE SaveKeys(_, _, _, _, _)
SaveKeys(s, keys, poll_results, cam_state_map, now) ==
    IF keys = <<>> THEN s
    ELSE SaveKeys(SaveCamera(s, Head(keys), poll_results[Head(keys)], cam_state_map, now),
                  Tail(keys), poll_results, cam_state_map, now)

\* nvr_cam_keys of one NVR: the poll_results keys with its prefix
NvrCamKeys(nvr_ip, poll_results) ==
    {k \in DOMAIN poll_results : StartsWith(k, nvr_ip \o <<"-">>)}

RECURSIVE SaveNvrs(_, _, _, _, _)
SaveNvrs(s, nvrs, poll_results, cam_state_map, now) ==
    IF nvrs = <<>> THEN s
    ELSE SaveNvrs(SaveKeys(s, SetToSeq(NvrCamKeys(Head(nvrs), poll_results)),
                           poll_results, cam_state_map, now),
                  Tail(nvrs), poll_results, cam_state_map, now)

\* variant: no pruning
Prune_Nothing(cams, cam_state_map, active_keys_in_poll) == cams

\* "Pruning logic": the rows left after deleting the stale keys
Prune(cams, cam_state_map, active_keys_in_poll) ==
    LET stale_keys == (DOMAIN cam_state_map) \ active_keys_in_poll
    IN  {r \in cams : \A k \in stale_keys : RowId(r) # Split(k)}

\* fault: the final commit raises, the except branch rolls the session back
save_state_to_db(store, nvr_ip_list, poll_results, now, check_count, fault) ==
    LET nvr_set == Range(nvr_ip_list)
        all_cam_states == {r \in store.cams : r.nvr_ip \in nvr_set}
        cam_state_map == [k \in {RowKey(r) : r \in all_cam_states} |->
                             RowId(CHOOSE r \in all_cam_states : RowKey(r) = k)]
        active_keys_in_poll == UNION {NvrCamKeys(n, poll_results) : n \in nvr_set}
        s1 == SaveNvrs(Session(store), SetToSeq(nvr_set), poll_results, cam_state_map, now)
        s2 == [s1 EXCEPT !.work.cams = Prune(s1.work.cams, cam_state_map, active_keys_in_poll),
                         !.work.checks = Append(s1.work.checks, check_count)]
    IN  IF fault \/ s2.dup THEN [Rollback(s2) EXCEPT !.failed = TRUE] ELSE Commit(s2)

-----------------------------------------------------------------------------
(* Alert Policy Engine and Digest Dispatcher: check_and_send_alerts *)

\* variant: the first alert does not wait for first_alert_delay
IsInitialAlert_NoDelay(cam, now, first_alert_delay) ==
    cam.alert_email_count = 0

\* variant: the first alert waits for more than first_alert_delay
IsInitialAlert_Strict(cam, now, first_alert_delay) ==
    cam.alert_email_count = 0 /\ now - cam.last_online > first_alert_delay

IsInitialAlert(cam, now, first_alert_delay) ==
    cam.alert_email_count = 0 /\ now - cam.last_online >= first_alert_delay

\* variant: the recurring alert does not wait for alert_frequency
IsRecurringAlert_EveryCycle(cam, now, alert_frequency) ==
    /\ cam.alert_email_count > 0
    /\ cam.last_alert_time # None

IsRecurringAlert(cam, now, alert_frequency) ==
    /\ cam.alert_email_count > 0
    /\ cam.last_alert_time # None
    /\ now - cam.last_alert_time >= alert_frequency

\* variant: a muted camera is evaluated like any other
Eligible_MutedToo(cam, now, cfg) ==
    \/ IsInitialAlert(cam, now, cfg.first_alert_delay)
    \/ IsRecurringAlert(cam, now, cfg.alert_frequency)

\* variant: only the initial-alert rule makes a camera eligible
Eligible_OnlyInitial(cam, now, cfg) ==
    ~cam.is_muted /\ IsInitialAlert(cam, now, cfg.first_alert_delay)

Eligible(cam, now, cfg) ==
    /\ ~cam.is_muted
    /\ \/ IsInitialAlert(cam, now, cfg.first_alert_delay)
       \/ IsRecurringAlert(cam, now, cfg.alert_frequency)

\* variant: muting one alert late
MuteThresholdMet_Late(cam, mute_after_n_alerts) ==
    cam.alert_email_count > mute_after_n_alerts

\* variant: muting one alert early
MuteThresholdMet_Early(cam, mute_after_n_alerts) ==
    cam.alert_email_count >= mute_after_n_alerts - 1

\* "Check if Mute Threshold is met"
MuteThresholdMet(cam, mute_after_n_alerts) ==
    cam.alert_email_count >= mute_after_n_alerts

MutedCam(cam) == [cam EXCEPT !.is_muted = TRUE]

\* variant: the alert is counted without its time
AlertedCam_KeepTime(cam, now) ==
    [cam EXCEPT !.alert_email_count = cam.alert_email_count + 1]

AlertedCam(cam, now) ==
    [cam EXCEPT !.last_alert_time = now, !.alert_email_count = cam.alert_email_count + 1]

\* the body of the loop over all_down_cameras for one eligible camera
AlertCamera(s, cam, now, cfg) ==
    IF MuteThresholdMet(cam, cfg.mute_after_n_alerts)
    THEN log_event([s EXCEPT !.work.cams = (s.work.cams \ {cam}) \cup {MutedCam(cam)}],
                   "camera_muted", RowKey(cam))
    ELSE log_event([s EXCEPT !.work.cams = (s.work.cams \ {cam}) \cup {AlertedCam(cam, now)}],
                   "mail_alert_triggered", RowKey(cam))

RECURSIVE AlertCams(_, _, _, _)
AlertCams(s, cams, now, cfg) ==
    IF cams = <<>> THEN s
    ELSE AlertCams(IF Eligible(Head(cams), now, cfg)
                   THEN AlertCamera(s, Head(cams), now, cfg) ELSE s,
                   Tail(cams), now, cfg)

\* marks the AlertLog rows written by mailer.log_mail_event (one per call of the
\* transport), which differ from the monitor's own rows by their details
FromMailer == <<"m">>

\* mailer.send_email: the transport's verdict, then log_mail_event adds its row and
\* commits db.session
send_email(s, delivered) ==
    log_event(s, IF delivered THEN "mail_sent" ELSE "mail_error", FromMailer)

\* variant: a table with the Offline cameras only
build_html_email_OfflineOnly(down_cameras) ==
    {r \in down_cameras : r.status = "Offline"}

\* build_html_email: the cameras that get a row of the table
build_html_email(down_cameras) == down_cameras

\* "Send Digest Email if needed": what follows send_email's return
Dispatch(s, sent_successfully) ==
    IF sent_successfully
    THEN log_event(Commit(s), "mail_sent", <<>>)
    ELSE log_event(Rollback(s), "mail_failed", <<>>)

\* result: [s |-> the session afterwards, eligible |-> ids found eligible,
\*          listed |-> ids in the digest, mail |-> "none" | "ok" | "fail"]
check_and_send_alerts(store, now, cfg, delivered) ==
    LET all_down_cameras == {r \in store.cams : r.status # "Online"}
        eligible == {r \in all_down_cameras : Eligible(r, now, cfg)}
        s1 == AlertCams(Session(store), SetToSeq(all_down_cameras), now, cfg)
    IN  IF all_down_cameras = {}
        THEN [s |-> Session(store), eligible |-> {}, listed |-> {}, mail |-> "none"]
        ELSE IF eligible # {}
        THEN [s |-> Dispatch(send_email(s1, delivered), delivered),
              eligible |-> {RowId(r) : r \in eligible},
              listed |-> {RowId(r) : r \in build_html_email(all_down_cameras)},
              mail |-> IF delivered THEN "ok" ELSE "fail"]
        ELSE [s |-> Commit(s1), eligible |-> {}, listed |-> {}, mail |-> "none"]

-----------------------------------------------------------------------------
(* Configuration *)

\* load_config_from_app: the values a monitor keeps for its whole life
LoadedConfig(cfg) ==
    [nvr_configs |-> cfg.NVR_LIST_CONFIG,
     first_alert_delay |-> Minutes(cfg.FIRST_ALERT_DELAY_MINUTES),
     alert_frequency |-> Minutes(cfg.ALERT_FREQUENCY_MINUTES),
     mute_after_n_alerts |-> cfg.MUTE_AFTER_N_ALERTS]

\* load_config_from_app returns True although the shared password is missing
ConfigLoads_IgnorePassword(cfg) ==
    /\ cfg.NVR_LIST_CONFIG # <<>>
    /\ cfg.CAMERA_NAME_FILE

\* load_config_from_app and load_camera_names both return True
ConfigLoads(cfg) ==
    /\ cfg.NVR_LIST_CONFIG # <<>>
    /\ cfg.NVR_SHARED_PASSWORD
    /\ cfg.CAMERA_NAME_FILE

\* what load_config_from_app has assigned when run() returns early: nothing but
\* the empty NVR list, or every value (the password is tested last)
FailedLoad(mrec, cfg) ==
    IF cfg.NVR_LIST_CONFIG = <<>>
    THEN [mrec EXCEPT !.pc = "dead", !.cfg.nvr_configs = <<>>]
    ELSE [mrec EXCEPT !.pc = "dead", !.cfg = LoadedConfig(cfg)]

\* BackgroundMonitor.__init__
NewMonitor(pc, wake) ==
    [pc |-> pc, running |-> TRUE, check_count |-> 0, wake |-> wake,
     cfg |-> [nvr_configs |-> <<>>,
              first_alert_delay |-> Minutes(DefaultFirstDelayMinutes),
              alert_frequency |-> Minutes(InitFrequencyMinutes),
              mute_after_n_alerts |-> DefaultMuteAfter],
     todo |-> <<>>, poll_results |-> <<>>, seen |-> <<>>, current_db_state |-> <<>>]

\* variant: the monitor reads the application's configuration in every cycle
ConfigInUse_Live(m) == LoadedConfig(appcfg)

\* self.nvr_configs, self.first_alert_delay, self.alert_frequency and
\* self.mute_after_n_alerts as the cycle reads them
ConfigInUse(m) == mon[m].cfg

Alive(m) == mon[m].pc \notin {"unborn", "dead"}

InCycle(m) == mon[m].pc \in {"poll", "save", "alert"}

\* the thread can take its next step now
Ready(m) ==
    /\ Alive(m)
    /\ \/ clock >= mon[m].wake
       \/ mon[m].pc = "sleep" /\ ~mon[m].running

\* variant: the loop does not look at self.running
LoopTop_Ignore(mrec) ==
    [mrec EXCEPT !.pc = "poll", !.check_count = mrec.check_count + 1,
                 !.poll_results = <<>>, !.seen = <<>>,
                 !.todo = mrec.cfg.nvr_configs]

\* the top of "while self.running": start the next cycle or leave run()
LoopTop(mrec) ==
    IF mrec.running
    THEN [mrec EXCEPT !.pc = "poll", !.check_count = mrec.check_count + 1,
                      !.poll_results = <<>>, !.seen = <<>>,
                      !.todo = mrec.cfg.nvr_configs]
    ELSE [mrec EXCEPT !.pc = "dead"]

\* how long the request blocks: a timeout takes the whole timeout=10
Duration(outcome) == IF outcome.kind = "conn" THEN request_timeout ELSE 0

\* whether the store may raise in this step
FaultChoices == IF faults < MaxFaults /\ env.faulty THEN BOOLEAN ELSE {FALSE}

\* what one NVR may answer to one status request
Outcomes(nvr_ip) ==
    {[kind |-> "ok", chans |-> f] :
        f \in UNION {[S -> BOOLEAN] : S \in SUBSET env.chans[nvr_ip]}}
    \cup {[kind |-> k, chans |-> <<>>] : k \in env.kinds \ {"ok"}}

\* the answers a scripted environment allows in the monitor's cycle check_count:
\* every channel online in the first env.onlineCycles cycles, none online afterwards
\* (env.onlineCycles = 0: no script)
Scripted(nvr_ip, check_count, outcome) ==
    \/ env.onlineCycles = 0
    \/ /\ check_count <= env.onlineCycles
       /\ outcome.kind = "ok"
       /\ DOMAIN outcome.chans = env.chans[nvr_ip]
       /\ \A c \in DOMAIN outcome.chans : outcome.chans[c]
    \/ /\ check_count > env.onlineCycles
       /\ \/ outcome.kind # "ok"
          \/ /\ DOMAIN outcome.chans = env.chans[nvr_ip]
             /\ \A c \in DOMAIN outcome.chans : ~outcome.chans[c]

\* a history counter that stops at 2
UpTo2(n) == IF n > 2 THEN 2 ELSE n

NoEpisode == [checks |-> 0, downs |-> 0, first |-> "none"]

\* history: a channel's episode after one answer for it: checks counts the
\* consecutive answers that were not Online, downs the camera_down events logged
\* for the channel meanwhile, first is the kind of the episode's first answer
EpisodeAfter(e, kind, logged) ==
    [checks |-> UpTo2(e.checks + 1),
     downs |-> UpTo2(e.downs + (IF logged THEN 1 ELSE 0)),
     first |-> IF e.checks = 0 THEN kind ELSE e.first]

\* history: the episodes after the request to nvr_ip: a channel answered offline
\* or written by update_nvr_state_on_error goes on with its episode, a channel
\* answered online or missing from an answer with channels has none
NextEpisodes(nvr_ip, outcome, res) ==
    [id \in AllIds |->
        LET key == Key(id[1], id[2])
            logged == <<"camera_down", key>> \in Range(res.events)
        IN  IF id[1] # nvr_ip THEN episodes[id]
            ELSE IF outcome.kind = "ok" /\ DOMAIN outcome.chans # {}
            THEN IF id[2] \in DOMAIN outcome.chans /\ ~outcome.chans[id[2]]
                 THEN EpisodeAfter(episodes[id], "offline", logged)
                 ELSE NoEpisode
            ELSE IF key \in DOMAIN res.results /\ res.results[key].status = "System Error"
            THEN EpisodeAfter(episodes[id], "error", logged)
            ELSE episodes[id]]

\* history: the digests delivered on account of each camera in its current downtime
NextSent(cams, eligible, delivered) ==
    [id \in AllIds |->
        IF \E r \in cams : RowId(r) = id /\ r.status # "Online"
        THEN sentFor[id] + (IF delivered /\ id \in eligible THEN 1 ELSE 0)
        ELSE 0]

Did(op, m, s, mail, eligible, listed) ==
    [op |-> op, m |-> m, pre |-> db, commits |-> s.commits, events |-> s.events,
     mail |-> mail, eligible |-> eligible, listed |-> listed, now |-> clock]

-----------------------------------------------------------------------------
(* BackgroundMonitor.run, one step per handler it calls *)

\* run(): sleep(5), load the configuration and the names, log service_started,
\* take the first snapshot, enter the loop
RunStart(m) ==
    /\ mon[m].pc = "start"
    /\ Ready(m)
    /\ IF ConfigLoads(appcfg)
       THEN /\ mon' = [mon EXCEPT ![m] =
                          LoopTop([mon[m] EXCEPT !.cfg = LoadedConfig(appcfg),
                                                 !.current_db_state = SnapshotOf(db.cams)])]
            /\ last' = Did("start", m, Logged(Session(db), "service_started", <<>>),
                           "none", {}, {})
       ELSE /\ mon' = [mon EXCEPT ![m] = FailedLoad(mon[m], appcfg)]
            /\ last' = Did("start", m, Session(db), "none", {}, {})
    /\ UNCHANGED <<clock, appcfg, db, mgr, sentFor, ups, faults, episodes, env>>

\* one iteration of "for nvr_config in self.nvr_configs": poll_nvr_status
PollNvr(m) ==
    /\ mon[m].pc = "poll"
    /\ Ready(m)
    /\ \E outcome \in {o \in Outcomes(Head(mon[m].todo)) :
                          Scripted(Head(mon[m].todo), mon[m].check_count, o)} :
          LET nvr_ip == Head(mon[m].todo)
              res == poll_nvr_status(nvr_ip, outcome, clock, mon[m].poll_results,
                                     mon[m].current_db_state, ConfigInUse(m).nvr_configs)
          IN  /\ mon' = [mon EXCEPT ![m].poll_results = res.results,
                                    ![m].seen = Put(mon[m].seen, [n \in {nvr_ip} |-> outcome]),
                                    ![m].todo = Tail(mon[m].todo),
                                    ![m].wake = clock + Duration(outcome),
                                    ![m].pc = IF Tail(mon[m].todo) = <<>>
                                              THEN "save" ELSE "poll"]
              /\ last' = Did("poll", m, [Session(db) EXCEPT !.events = res.events],
                             "none", {}, {})
              /\ episodes' = IF env.track
                              THEN NextEpisodes(nvr_ip, outcome, res)
                              ELSE episodes
    /\ UNCHANGED <<clock, appcfg, db, mgr, sentFor, ups, faults, env>>

\* save_state_to_db, then the refresh of current_db_state
SaveState(m) ==
    /\ mon[m].pc = "save"
    /\ Ready(m)
    /\ \E fault \in FaultChoices :
          LET s == save_state_to_db(db, ConfigInUse(m).nvr_configs, mon[m].poll_results,
                                    clock, mon[m].check_count, fault)
          IN  /\ db' = s.store
              /\ mon' = [mon EXCEPT ![m].current_db_state = SnapshotOf(s.store.cams),
                                    ![m].pc = "alert"]
              /\ sentFor' = NextSent(s.store.cams, {}, FALSE)
              /\ ups' = ups \cup {id \in AllIds :
                                     <<"camera_up", Key(id[1], id[2])>> \in Range(s.events)}
              /\ last' = Did(IF s.failed THEN "save_failed" ELSE "save", m, s, "none", {}, {})
              /\ faults' = faults + (IF fault THEN 1 ELSE 0)
    /\ UNCHANGED <<clock, appcfg, mgr, episodes, env>>

\* check_and_send_alerts, then the summary and the start of the sleep loop;
\* fault: the first query raises and the exception leaves run()
CheckAlerts(m) ==
    /\ mon[m].pc = "alert"
    /\ Ready(m)
    /\ \E delivered \in env.mail, fault \in FaultChoices :
          IF fault
          THEN /\ mon' = [mon EXCEPT ![m].pc = "dead"]
               /\ faults' = faults + 1
               /\ last' = Did("alert_raised", m, Session(db), "none", {}, {})
               /\ UNCHANGED <<db, sentFor>>
          ELSE LET res == check_and_send_alerts(db, clock, ConfigInUse(m), delivered)
               IN  /\ db' = res.s.store
                   /\ mon' = [mon EXCEPT ![m].pc = "sleep",
                                         ![m].wake = clock + polling_interval]
                   /\ sentFor' = NextSent(res.s.store.cams, res.eligible, res.mail = "ok")
                   /\ last' = Did("alert", m, res.s, res.mail, res.eligible, res.listed)
                   /\ faults' = faults
    /\ UNCHANGED <<clock, appcfg, mgr, ups, episodes, env>>

\* the sleep loop ends (60 one-second sleeps, or self.running found False)
\* and "while self.running" is evaluated
NextCycle(m) ==
    /\ mon[m].pc = "sleep"
    /\ Ready(m)
    /\ mon' = [mon EXCEPT ![m] = LoopTop(mon[m])]
    /\ last' = Did("loop", m, Session(db), "none", {}, {})
    /\ UNCHANGED <<clock, appcfg, db, mgr, sentFor, ups, faults, episodes, env>>

-----------------------------------------------------------------------------
(* api.handle_config and monitor_manager.start_monitor_thread *)

\* BackgroundMonitor.stop, called on the running thread object
stop(mrec) == [mrec EXCEPT !.running = FALSE]

\* POST /config: read config.json (whose NVR list may have been edited), store the
\* three values, update app.config with all of it, then enter start_monitor_thread:
\* stop the current thread if it is alive and wait in join(timeout=10)
HandleConfig(c) ==
    /\ mgr.phase = "idle"
    /\ mgr.created < MaxMonitors
    /\ clock \in env.restartAt
    /\ appcfg' = [appcfg EXCEPT !.NVR_LIST_CONFIG = IF c.edited THEN c.nvrs ELSE @,
                                !.FIRST_ALERT_DELAY_MINUTES = c.first,
                                !.ALERT_FREQUENCY_MINUTES = c.freq,
                                !.MUTE_AFTER_N_ALERTS = c.mute]
    /\ IF Alive(mgr.thread)
       THEN /\ mon' = [mon EXCEPT ![mgr.thread] = stop(mon[mgr.thread])]
            /\ last' = Did("config", mgr.thread,
                           Logged(Logged(Session(db), "service_config_changed", <<>>),
                                  "service_stopped", <<>>), "none", {}, {})
       ELSE /\ mon' = mon
            /\ last' = Did("config", mgr.thread,
                           Logged(Session(db), "service_config_changed", <<>>),
                           "none", {}, {})
    /\ mgr' = [mgr EXCEPT !.phase = "join", !.deadline = clock + join_timeout]
    /\ UNCHANGED <<clock, db, sentFor, ups, faults, episodes, env>>

\* join returned (the thread ended or the timeout passed): create and start
\* the new BackgroundMonitor
StartMonitor ==
    /\ mgr.phase = "join"
    /\ ~Alive(mgr.thread) \/ clock >= mgr.deadline
    /\ mon' = [mon EXCEPT ![mgr.created + 1] = NewMonitor("start", clock + startup_sleep)]
    /\ mgr' = [mgr EXCEPT !.phase = "idle", !.thread = mgr.created + 1,
                          !.created = mgr.created + 1]
    /\ last' = Did("started", mgr.created + 1, Session(db), "none", {}, {})
    /\ UNCHANGED <<clock, appcfg, db, sentFor, ups, faults, episodes, env>>

-----------------------------------------------------------------------------
(* Time *)

Min(S) == CHOOSE x \in S : \A y \in S : x <= y

\* the instants at which a waiting thread or a waiting join goes on
Deadlines ==
    {mon[m].wake : m \in {i \in Monitors : Alive(i)}}
    \cup (IF mgr.phase = "join" THEN {mgr.deadline} ELSE {})

\* time passes while every thread waits
Tick ==
    /\ \A m \in Monitors : ~Ready(m)
    /\ ~ENABLED StartMonitor
    /\ {t \in Deadlines : t > clock} # {}
    /\ clock' = Min({t \in Deadlines : t > clock})
    /\ clock' <= env.horizon
    /\ UNCHANGED <<appcfg, db, mon, mgr, sentFor, ups, last, faults, episodes, env>>

-----------------------------------------------------------------------------
(* Specifications *)

\* app.config after create_app, with the timings in minutes
AppConfig(first, freq, mute, nvrs) ==
    [NVR_LIST_CONFIG |-> nvrs, NVR_SHARED_PASSWORD |-> TRUE, CAMERA_NAME_FILE |-> TRUE,
     FIRST_ALERT_DELAY_MINUTES |-> first, ALERT_FREQUENCY_MINUTES |-> freq,
     MUTE_AFTER_N_ALERTS |-> mute]

\* the configurations create_app may end with: complete, without the NVR list,
\* without the shared password, without the camera names file
StartupConfigs(cfg) ==
    {cfg,
     [cfg EXCEPT !.NVR_LIST_CONFIG = <<>>],
     [cfg EXCEPT !.NVR_SHARED_PASSWORD = FALSE],
     [cfg EXCEPT !.CAMERA_NAME_FILE = FALSE]}

\* create_app: empty store, start_monitor_thread(app) has started the first monitor
InitWith(cfg, e) ==
    /\ clock = 0
    /\ appcfg = cfg
    /\ db = [cams |-> {}, checks |-> <<>>]
    /\ mon = [m \in Monitors |->
                IF m = 1 THEN NewMonitor("start", startup_sleep) ELSE NewMonitor("unborn", 0)]
    /\ mgr = [thread |-> 1, phase |-> "idle", deadline |-> 0, created |-> 1]
    /\ sentFor = [id \in AllIds |-> 0]
    /\ ups = {}
    /\ last = [op |-> "init", m |-> 1, pre |-> db, commits |-> <<>>, events |-> <<>>,
               mail |-> "none", eligible |-> {}, listed |-> {}, now |-> 0]
    /\ faults = 0
    /\ episodes = [id \in AllIds |-> NoEpisode]
    /\ env = e

\* one NVR with two channels, short timings, immediate NVR failures, store
\* faults, a change of the mute threshold with a restart at any moment, and a
\* configuration that may be incomplete at startup
Init ==
    \E cfg \in StartupConfigs(AppConfig(1, 1, 1, <<NvrA>>)) :
    InitWith(cfg,
             [chans |-> [n \in {NvrA, NvrB} |-> IF n = NvrA THEN {Ch1, Ch2} ELSE {}],
              kinds |-> {"ok", "http"},
              mail |-> BOOLEAN,
              faulty |-> TRUE,
              onlineCycles |-> 0,
              track |-> FALSE,
              cfgs |-> {[first |-> 1, freq |-> 1, mute |-> 2, edited |-> FALSE, nvrs |-> <<>>]},
              horizon |-> Horizon * polling_interval,
              restartAt |-> 0..(Horizon * polling_interval)])

\* two NVRs with one channel each, requests that time out, and a restart
\* requested while the second cycle is under way
InitTwo ==
    InitWith(AppConfig(1, 1, 1, <<NvrA, NvrB>>),
             [chans |-> [n \in {NvrA, NvrB} |-> {Ch1}],
              kinds |-> {"ok", "conn"},
              mail |-> {TRUE},
              faulty |-> FALSE,
              onlineCycles |-> 0,
              track |-> FALSE,
              cfgs |-> {[first |-> 1, freq |-> 1, mute |-> 1, edited |-> FALSE, nvrs |-> <<>>]},
              horizon |-> Horizon * polling_interval,
              restartAt |-> {startup_sleep + polling_interval}])

\* one camera, the default timings (15 min, 30 min, 3 alerts), mail always delivered
InitLong ==
    InitWith(AppConfig(DefaultFirstDelayMinutes, DefaultFrequencyMinutes, DefaultMuteAfter,
                       <<NvrA>>),
             [chans |-> [n \in {NvrA, NvrB} |-> IF n = NvrA THEN {Ch1} ELSE {}],
              kinds |-> {"ok", "http"},
              mail |-> {TRUE},
              faulty |-> FALSE,
              onlineCycles |-> 0,
              track |-> FALSE,
              cfgs |-> {[first |-> DefaultFirstDelayMinutes,
                         freq |-> DefaultFrequencyMinutes,
                         mute |-> DefaultMuteAfter, edited |-> FALSE, nvrs |-> <<>>]},
              horizon |-> HorizonLong * polling_interval,
              restartAt |-> {0}])

\* one camera, the default timings, mail always delivered, and the scripted NVR:
\* online for OnlineCycles cycles, then offline or failing
InitFirstAlert ==
    InitWith(AppConfig(DefaultFirstDelayMinutes, DefaultFrequencyMinutes, DefaultMuteAfter,
                       <<NvrA>>),
             [chans |-> [n \in {NvrA, NvrB} |-> IF n = NvrA THEN {Ch1} ELSE {}],
              kinds |-> {"ok", "http"},
              mail |-> {TRUE},
              faulty |-> FALSE,
              onlineCycles |-> OnlineCycles,
              track |-> FALSE,
              cfgs |-> {[first |-> DefaultFirstDelayMinutes,
                         freq |-> DefaultFrequencyMinutes,
                         mute |-> DefaultMuteAfter, edited |-> FALSE, nvrs |-> <<>>]},
              horizon |-> HorizonFirstAlert * polling_interval,
              restartAt |-> {0}])

Next ==
    \/ \E m \in Monitors : RunStart(m)
    \/ \E m \in Monitors : PollNvr(m)
    \/ \E m \in Monitors : SaveState(m)
    \/ \E m \in Monitors : CheckAlerts(m)
    \/ \E m \in Monitors : NextCycle(m)
    \/ \E c \in env.cfgs : HandleConfig(c)
    \/ StartMonitor
    \/ Tick

Spec == Init /\ [][Next]_vars

SpecTwo == InitTwo /\ [][Next]_vars

SpecLong == InitLong /\ [][Next]_vars

SpecFirstAlert == InitFirstAlert /\ [][Next]_vars

\* every thread that can take a step is scheduled, a join that can return returns,
\* and time passes while all of them wait; POST /config is up to the user.
\* For SaveState and CheckAlerts weak fairness is written with the action's guard
\* in the place of ENABLED.
Fairness ==
    /\ \A m \in Monitors :
          /\ WF_vars(RunStart(m))
          /\ WF_vars(PollNvr(m))
          /\ []<>(~(mon[m].pc = "save" /\ Ready(m))) \/ []<><<SaveState(m)>>_vars
          /\ []<>(~(mon[m].pc = "alert" /\ Ready(m))) \/ []<><<CheckAlerts(m)>>_vars
          /\ WF_vars(NextCycle(m))
    /\ WF_vars(StartMonitor)
    /\ WF_vars(Tick)

\* one NVR with one channel, requests that may time out, mail that may fail, store
\* faults, and a restart at any moment: during the startup sleep, during a request,
\* between the steps of a cycle, during the sleep between two cycles
InitLive ==
    InitWith(AppConfig(1, 1, 1, <<NvrA>>),
             [chans |-> [n \in {NvrA, NvrB} |-> IF n = NvrA THEN {Ch1} ELSE {}],
              kinds |-> {"ok", "conn"},
              mail |-> BOOLEAN,
              faulty |-> TRUE,
              onlineCycles |-> 0,
              track |-> FALSE,
              cfgs |-> {[first |-> 1, freq |-> 1, mute |-> 2, edited |-> FALSE, nvrs |-> <<>>]},
              horizon |-> Horizon * polling_interval,
              restartAt |-> 0..(Horizon * polling_interval)])

SpecLive == InitLive /\ [][Next]_vars /\ Fairness

\* two NVRs with one channel each, the first one configured at startup; config.json
\* is edited to list both, and POST /config, at any moment, doubles the first-alert
\* delay and raises the mute threshold
InitReconfig ==
    InitWith(AppConfig(1, 1, 1, <<NvrA>>),
             [chans |-> [n \in {NvrA, NvrB} |-> {Ch1}],
              kinds |-> {"ok", "http"},
              mail |-> {TRUE},
              faulty |-> FALSE,
              onlineCycles |-> 0,
              track |-> FALSE,
              cfgs |-> {[first |-> 2, freq |-> 1, mute |-> 2,
                         edited |-> TRUE, nvrs |-> <<NvrA, NvrB>>]},
              horizon |-> Horizon * polling_interval,
              restartAt |-> 0..(Horizon * polling_interval)])

SpecReconfig == InitReconfig /\ [][Next]_vars

\* one NVR with one channel, immediate NVR failures, store faults, a restart at
\* any moment, and the history of every channel's episode kept
InitEpisodes ==
    InitWith(AppConfig(1, 1, 1, <<NvrA>>),
             [chans |-> [n \in {NvrA, NvrB} |-> IF n = NvrA THEN {Ch1} ELSE {}],
              kinds |-> {"ok", "http"},
              mail |-> {TRUE},
              faulty |-> TRUE,
              onlineCycles |-> 0,
              track |-> TRUE,
              cfgs |-> {[first |-> 1, freq |-> 1, mute |-> 2, edited |-> FALSE, nvrs |-> <<>>]},
              horizon |-> Horizon * polling_interval,
              restartAt |-> 0..(Horizon * polling_interval)])

SpecEpisodes == InitEpisodes /\ [][Next]_vars

\* two NVRs with one channel each, the first one configured at startup; config.json
\* is edited to list the second one only, and POST /config restarts the monitor at
\* any moment
InitRetire ==
    InitWith(AppConfig(1, 1, 1, <<NvrA>>),
             [chans |-> [n \in {NvrA, NvrB} |-> {Ch1}],
              kinds |-> {"ok", "http"},
              mail |-> {TRUE},
              faulty |-> FALSE,
              onlineCycles |-> 0,
              track |-> FALSE,
              cfgs |-> {[first |-> 1, freq |-> 1, mute |-> 1, edited |-> TRUE,
                         nvrs |-> <<NvrB>>]},
              horizon |-> Horizon * polling_interval,
              restartAt |-> 0..(Horizon * polling_interval)])

SpecRetire == InitRetire /\ [][Next]_vars

\* an NVR whose name contains a dash, with one channel, configured at startup;
\* config.json is edited to list the NVR whose name is the part before the dash as
\* well, and POST /config restarts the monitor at any moment
InitDash ==
    InitWith(AppConfig(1, 1, 1, <<NvrC>>),
             [chans |-> [n \in {NvrA, NvrC} |-> {Ch1}],
              kinds |-> {"ok", "http"},
              mail |-> {TRUE},
              faulty |-> FALSE,
              onlineCycles |-> 0,
              track |-> FALSE,
              cfgs |-> {[first |-> 1, freq |-> 1, mute |-> 1, edited |-> TRUE,
                         nvrs |-> <<NvrC, NvrA>>]},
              horizon |-> Horizon * polling_interval,
              restartAt |-> 0..(Horizon * polling_interval)])

SpecDash == InitDash /\ [][Next]_vars

\* one camera that is online in a monitor's first cycle and never again (offline, or
\* its NVR failing), short timings, mail that may fail, store faults, a restart at
\* any moment, and every thread scheduled
InitMute ==
    InitWith(AppConfig(1, 1, 2, <<NvrA>>),
             [chans |-> [n \in {NvrA, NvrB} |-> IF n = NvrA THEN {Ch1} ELSE {}],
              kinds |-> {"ok", "http"},
              mail |-> BOOLEAN,
              faulty |-> TRUE,
              onlineCycles |-> 1,
              track |-> FALSE,
              cfgs |-> {[first |-> 1, freq |-> 1, mute |-> 2, edited |-> FALSE, nvrs |-> <<>>]},
              horizon |-> HorizonMute * polling_interval,
              restartAt |-> 0..(HorizonMute * polling_interval)])

SpecMute == InitMute /\ [][Next]_vars /\ Fairness

-----------------------------------------------------------------------------
(* Properties *)

RowsOf(cams, id) == {r \in cams : RowId(r) = id}

AlertFields(r) == <<r.alert_email_count, r.is_muted, r.last_alert_time>>

\* the store states committed by the latest handler, after the state it started from
CommitChain == <<last.pre>> \o last.commits

\* the monitor that ran the latest handler
Actor == mon[last.m]

C2_NoFourthDigest ==
    \A id \in AllIds : sentFor[id] <= DefaultMuteAfter

\* C2 (amended): with 15 min / 30 min / 3 and mail delivered, the alerts of a camera
\* offline since T are counted at the first cycles at or after T+15, T+45 and T+75 min,
\* alert_email_count never exceeds 3, the camera is muted with count 3 at the first
\* cycle at or after T+105 min, and the digests sent on its account are its counted
\* alerts plus one more sent by the cycle that mutes it; after an evaluation no
\* unmuted camera is left eligible.
C2_ThreeAlertsThenMuteDigest ==
    \A r \in db.cams : r.status # "Online" =>
        LET n == r.alert_email_count
            due == r.last_online
                   + Minutes(DefaultFirstDelayMinutes + DefaultFrequencyMinutes * (n - 1))
        IN  /\ n <= DefaultMuteAfter
            /\ n >= 1 => /\ r.last_alert_time >= due
                         /\ r.last_alert_time < due + n * polling_interval
            /\ r.is_muted => /\ n = DefaultMuteAfter
                             /\ clock >= r.last_alert_time + Minutes(DefaultFrequencyMinutes)
            /\ sentFor[RowId(r)] = n + (IF r.is_muted THEN 1 ELSE 0)
            /\ last.op = "alert" => ~Eligible(r, last.now, Actor.cfg)

\* a camera has been muted after three counted alerts and four digests
C2_MutedAfterFourDigests ==
    \E r \in db.cams :
        /\ r.is_muted
        /\ r.alert_email_count = DefaultMuteAfter
        /\ sentFor[RowId(r)] = DefaultMuteAfter + 1

\* C3: a camera offline since T with no alert yet is not alerted by an evaluation
\* before T + first_alert_delay, and the first evaluation at or after
\* T + first_alert_delay (mail delivered) counts exactly one alert for it and logs
\* exactly one mail_alert_triggered event.
C3_FirstAlertAfterDelay ==
    last.op = "alert" =>
        \A q \in last.pre.cams :
            (q.status # "Online" /\ ~q.is_muted /\ q.alert_email_count = 0) =>
                LET triggered == {i \in DOMAIN last.events :
                                    last.events[i] = <<"mail_alert_triggered", RowKey(q)>>}
                IN  IF last.now - q.last_online < Actor.cfg.first_alert_delay
                    THEN /\ q \in db.cams
                         /\ RowId(q) \notin last.eligible
                         /\ triggered = {}
                    ELSE last.mail = "ok" =>
                            /\ RowId(q) \in last.eligible
                            /\ Cardinality(triggered) = 1
                            /\ \E r \in db.cams :
                                  /\ RowId(r) = RowId(q)
                                  /\ r.alert_email_count = 1
                                  /\ r.last_alert_time = last.now
                                  /\ ~r.is_muted

\* an evaluation has just counted the first alert of a camera, mail delivered
C3_FirstAlertSent ==
    /\ last.op = "alert"
    /\ last.mail = "ok"
    /\ \E q \in last.pre.cams, r \in db.cams :
          /\ RowId(q) = RowId(r)
          /\ q.alert_email_count = 0
          /\ r.alert_email_count = 1
          /\ last.now - q.last_online >= Actor.cfg.first_alert_delay

\* C4: in every committed state of the store, down_check_count > 0 exactly for the
\* cameras whose status is not Online.
C4_DownCountIffNotOnline ==
    \A i \in DOMAIN CommitChain : \A r \in CommitChain[i].cams :
        (r.down_check_count > 0) <=> (r.status # "Online")

\* a reconciliation has committed a camera offline for two checks next to an online one
C4_CountedAndOnline ==
    /\ last.op = "save"
    /\ \E r \in db.cams : r.status # "Online" /\ r.down_check_count >= 2
    /\ \E r \in db.cams : r.status = "Online"

\* C5: no committed state of the store shows a camera Online with alert_email_count,
\* is_muted or last_alert_time not reset: the reset is committed together with the
\* change of status to Online.
C5_RecoveryResetsTogether ==
    \A i \in DOMAIN CommitChain : \A r \in CommitChain[i].cams :
        r.status = "Online" => AlertFields(r) = <<0, FALSE, None>>

\* a reconciliation has just brought back a camera that had been alerted
C5_AlertedCameraRecovered ==
    /\ last.op = "save"
    /\ \E q \in last.pre.cams, r \in db.cams :
          /\ RowId(q) = RowId(r)
          /\ q.status # "Online"
          /\ q.alert_email_count > 0
          /\ r.status = "Online"

\* C6: a camera that goes from Online to not Online in a reconciliation starts a new
\* episode: alert_email_count 0, is_muted false, last_alert_time null,
\* down_check_count 1 and last_online the time of this detection.
C6_NewEpisodeStartsFresh ==
    last.op = "save" =>
        \A q \in last.pre.cams, r \in db.cams :
            (RowId(q) = RowId(r) /\ q.status = "Online" /\ r.status # "Online") =>
                /\ AlertFields(r) = <<0, FALSE, None>>
                /\ r.down_check_count = 1
                /\ r.last_online = last.now

\* a camera that had recovered from an earlier downtime has just gone offline again
C6_SecondEpisodeStarted ==
    /\ last.op = "save"
    /\ \E q \in last.pre.cams, r \in db.cams :
          /\ RowId(q) = RowId(r)
          /\ RowId(r) \in ups
          /\ q.status = "Online"
          /\ r.status # "Online"

\* C7: an exception raised in a cycle does not end the monitor's loop: a monitor
\* that has started cycling leaves run() only after stop() was called on it.
C7_LoopSurvivesExceptions ==
    \A m \in Monitors :
        (mon[m].pc = "dead" /\ mon[m].check_count > 0) => ~mon[m].running

\* an exception has left check_and_send_alerts
C7_ExceptionInCycle ==
    last.op = "alert_raised"

\* C8: at most one monitor is executing a cycle (poll, reconcile, alert) at any time.
C8_AtMostOneMonitorInCycle ==
    Cardinality({m \in Monitors : InCycle(m)}) <= 1

\* a restart was requested while the running monitor was inside a cycle
C8_RestartDuringCycle ==
    /\ last.op = "config"
    /\ InCycle(last.m)

\* C9 (as stated): a muted camera has alert_email_count at least the mute threshold
\* of the monitor that is now running.
C9_MutedAtLeastRunningThreshold ==
    (Alive(mgr.thread) /\ mon[mgr.thread].pc # "start") =>
        \A r \in db.cams :
            r.is_muted => r.alert_email_count >= mon[mgr.thread].cfg.mute_after_n_alerts

\* C9 (amended): a camera is muted only by an evaluation in which its
\* alert_email_count is at least the mute threshold loaded by the evaluating
\* monitor, muting leaves the count as it is, and an evaluation leaves an already
\* muted camera unchanged.
C9_MutedAtThresholdOfMutingMonitor ==
    last.op = "alert" =>
        \A q \in last.pre.cams, r \in db.cams :
            RowId(q) = RowId(r) =>
                /\ (~q.is_muted /\ r.is_muted) =>
                      /\ r.alert_email_count >= Actor.cfg.mute_after_n_alerts
                      /\ r.alert_email_count = q.alert_email_count
                /\ q.is_muted => r = q

\* an evaluation has just muted a camera
C9_CameraMuted ==
    /\ last.op = "alert"
    /\ \E q \in last.pre.cams, r \in db.cams :
          RowId(q) = RowId(r) /\ ~q.is_muted /\ r.is_muted

\* the NVR of row q answered the latest poll of the acting monitor with HTTP 200
AnsweredOk(q) ==
    /\ q.nvr_ip \in Range(Actor.cfg.nvr_configs)
    /\ q.nvr_ip \in DOMAIN Actor.seen
    /\ Actor.seen[q.nvr_ip].kind = "ok"

\* C10: after a committed reconciliation, a stored channel of a configured NVR that
\* answered successfully in this cycle is deleted if it is absent from the cycle's
\* poll results, and kept if it is in the poll results or was reported by the NVR.
C10_AbsentChannelsPruned ==
    last.op = "save" =>
        \A q \in last.pre.cams : AnsweredOk(q) =>
            /\ RowKey(q) \notin DOMAIN Actor.poll_results => RowsOf(db.cams, RowId(q)) = {}
            /\ RowKey(q) \in DOMAIN Actor.poll_results => RowsOf(db.cams, RowId(q)) # {}
            /\ q.channel_id \in DOMAIN Actor.seen[q.nvr_ip].chans =>
                  RowsOf(db.cams, RowId(q)) # {}

\* a reconciliation has just deleted a channel that the NVR's answer left out
C10_ChannelPruned ==
    /\ last.op = "save"
    /\ \E q \in last.pre.cams :
          /\ AnsweredOk(q)
          /\ RowKey(q) \notin DOMAIN Actor.poll_results
          /\ RowsOf(db.cams, RowId(q)) = {}

\* the camera rows after running save_state_to_db once more, now, with the poll
\* results the acting monitor has just reconciled
SavedAgain ==
    save_state_to_db(db, Actor.cfg.nvr_configs, Actor.poll_results,
                     last.now, Actor.check_count, FALSE).store.cams

\* C11: running save_state_to_db a second time with the same poll results leaves
\* the stored camera records (every field, and the set of records) as the first
\* run left them.
C11_ReconcilingTwiceChangesNothing ==
    last.op = "save" => SavedAgain = db.cams

\* a reconciliation has just stored a camera's change from Online to Offline
C11_WentOfflineInReconciliation ==
    /\ last.op = "save"
    /\ \E q \in last.pre.cams, r \in db.cams :
          RowId(q) = RowId(r) /\ q.status = "Online" /\ r.status = "Offline"

\* the cycle in which the scripted camera is first found offline, and the cycle
\* first_alert_delay (one cycle per minute) later
FirstOfflineCycle == OnlineCycles + 1
FirstAlertCycle == FirstOfflineCycle + DefaultFirstDelayMinutes

\* C12: with a 60-second cycle and first_alert_delay = 15 min, a camera online in
\* cycles 1 to 5 and not online from cycle 6 on has down_check_count 15 in cycle 20,
\* before any alert, and its first alert is counted and mailed in cycle 21 and in no
\* earlier cycle.
C12_FirstAlertInCycle21 ==
    LET c == Actor.check_count
    IN  /\ (last.op = "save" /\ c <= OnlineCycles) =>
              \A r \in db.cams : r.status = "Online"
        /\ (last.op = "save" /\ c >= FirstOfflineCycle) =>
              \A r \in db.cams :
                  /\ r.status # "Online"
                  /\ r.down_check_count = c - OnlineCycles
                  /\ c < FirstAlertCycle => r.alert_email_count = 0
        /\ (last.op = "alert" /\ c < FirstAlertCycle) =>
              /\ last.mail = "none"
              /\ \A r \in db.cams : r.alert_email_count = 0 /\ sentFor[RowId(r)] = 0
        /\ (last.op = "alert" /\ c = FirstAlertCycle) =>
              /\ last.mail = "ok"
              /\ \A q \in last.pre.cams : q.down_check_count >= DefaultFirstDelayMinutes
              /\ \A r \in db.cams :
                    /\ r.alert_email_count = 1
                    /\ r.last_alert_time = last.now
                    /\ sentFor[RowId(r)] = 1

\* the scripted camera has just been alerted for the first time, in cycle 21
C12_AlertedInCycle21 ==
    /\ last.op = "alert"
    /\ Actor.check_count = FirstAlertCycle
    /\ last.mail = "ok"
    /\ \E r \in db.cams :
          r.status = "Offline" /\ r.alert_email_count = 1 /\ RowId(r) \in last.eligible

\* the calls of the mail transport made by the latest handler
TransportCalls == {i \in DOMAIN last.events : last.events[i][2] = FromMailer}

\* the cameras that satisfied the initial-alert or the recurring-alert rule when the
\* latest evaluation started
Flagged ==
    {q \in last.pre.cams :
        /\ q.status # "Online"
        /\ ~q.is_muted
        /\ \/ IsInitialAlert(q, last.now, Actor.cfg.first_alert_delay)
           \/ IsRecurringAlert(q, last.now, Actor.cfg.alert_frequency)}

\* C13: an evaluation calls the mail transport at most once, and it calls it exactly
\* when at least one camera that is not Online and not muted satisfies the
\* initial-alert or the recurring-alert rule, whether that camera is then alerted or
\* muted.
C13_OneDigestIffFlagged ==
    last.op = "alert" =>
        /\ Cardinality(TransportCalls) <= 1
        /\ (TransportCalls # {}) <=> (Flagged # {})
        /\ (last.mail # "none") <=> (Flagged # {})
        /\ last.eligible = {RowId(q) : q \in Flagged}

\* an evaluation has called the transport once although its only outcome was a mute
C13_DigestForMuteOnly ==
    /\ last.op = "alert"
    /\ Cardinality(TransportCalls) = 1
    /\ \E q \in last.pre.cams : ~q.is_muted /\ [q EXCEPT !.is_muted = TRUE] \in db.cams
    /\ \A q \in last.pre.cams, r \in db.cams :
          RowId(q) = RowId(r) => r.alert_email_count = q.alert_email_count

C15_RestartKeepsCameraState ==
    /\ last.op \in {"config", "started", "start"} => db = last.pre
    /\ (last.op = "start" /\ Alive(last.m)) => Actor.current_db_state = SnapshotOf(db.cams)
    /\ (last.op = "save" /\ last.m > 1 /\ Actor.check_count = 1) =>
          \A q \in last.pre.cams, r \in db.cams :
              (RowId(q) = RowId(r) /\ q.status # "Online" /\ r.status # "Online") =>
                  /\ r.down_check_count = q.down_check_count + 1
                  /\ r.last_online = q.last_online
                  /\ AlertFields(r) = AlertFields(q)

\* a restarted monitor has just reconciled, in its first cycle, a camera that was
\* already down and alerted before the restart
C15_DowntimeContinuedAfterRestart ==
    /\ last.op = "save"
    /\ last.m > 1
    /\ Actor.check_count = 1
    /\ \E q \in last.pre.cams, r \in db.cams :
          /\ RowId(q) = RowId(r)
          /\ q.status # "Online"
          /\ q.alert_email_count > 0
          /\ r.status # "Online"

\* the NVR list and the shared password are both present in the configuration
Configured == appcfg.NVR_LIST_CONFIG # <<>> /\ appcfg.NVR_SHARED_PASSWORD

\* C16: when the NVR list or the shared password is absent, the monitoring cycle never
\* starts: no monitor polls, no record is created, changed or deleted, no check is
\* recorded, no email is sent, and the thread has ended once run() has read the
\* configuration.
C16_NoCycleWithoutConfiguration ==
    ~Configured =>
        /\ db.cams = {}
        /\ db.checks = <<>>
        /\ \A id \in AllIds : sentFor[id] = 0
        /\ last.mail = "none"
        /\ last.op \in {"init", "start", "config", "started"}
        /\ \A m \in Monitors : /\ mon[m].check_count = 0
                               /\ mon[m].pc \in {"unborn", "start", "dead"}
                               /\ mon[m].poll_results = <<>>
        /\ last.op = "start" => mon[last.m].pc = "dead" /\ db = last.pre

\* a monitor has just left run() because the shared password is missing
C16_ThreadEndedWithoutPassword ==
    /\ last.op = "start"
    /\ appcfg.NVR_LIST_CONFIG # <<>>
    /\ ~appcfg.NVR_SHARED_PASSWORD
    /\ mon[last.m].pc = "dead"

TransportRaised == <<"mail_error", FromMailer>> \in Range(last.events)

C19_StoppedMonitorTerminates ==
    /\ [][\A m \in Monitors :
             ~mon[m].running => mon'[m].check_count = mon[m].check_count]_vars
    /\ \A m \in Monitors :
           (~mon[m].running) ~> (mon[m].pc = "dead" \/ mon[m].wake > env.horizon)

\* a monitor stopped after at least one cycle has left run()
C19_StoppedMonitorEnded ==
    \E m \in Monitors : ~mon[m].running /\ mon[m].pc = "dead" /\ mon[m].check_count >= 1

\* C20: a monitor decides with the values it loaded when it started: the values are
\* those of the configuration at the end of its startup, they stay as they are while
\* the monitor lives, whatever POST /config stores meanwhile, and in every cycle the
\* NVRs polled, the cameras found eligible and the choice between counting an alert
\* and muting follow those values.
C20_MonitorKeepsLoadedConfig ==
    /\ [](/\ (last.op = "start" /\ Alive(last.m)) => Actor.cfg = LoadedConfig(appcfg)
          /\ last.op \in {"save", "save_failed"} =>
                 DOMAIN Actor.seen = Range(Actor.cfg.nvr_configs)
          /\ last.op = "alert" =>
                 /\ last.eligible =
                        {RowId(q) : q \in {x \in last.pre.cams :
                                              /\ x.status # "Online"
                                              /\ Eligible(x, last.now, Actor.cfg)}}
                 /\ \A q \in last.pre.cams, r \in db.cams :
                        (RowId(q) = RowId(r) /\ RowId(q) \in last.eligible) =>
                            IF MuteThresholdMet(q, Actor.cfg.mute_after_n_alerts)
                            THEN r.is_muted /\ r.alert_email_count = q.alert_email_count
                            ELSE ~r.is_muted /\ r.alert_email_count = q.alert_email_count + 1)
    /\ [][\A m \in Monitors :
             mon[m].pc \notin {"unborn", "start"} => mon'[m].cfg = mon[m].cfg]_vars

\* a monitor has just found a camera eligible with the values it loaded, while the
\* configuration of the application holds other timings and another NVR list
C20_DecidedWithOldValues ==
    /\ last.op = "alert"
    /\ last.eligible # {}
    /\ Actor.cfg.first_alert_delay # LoadedConfig(appcfg).first_alert_delay
    /\ Actor.cfg.nvr_configs # appcfg.NVR_LIST_CONFIG
    /\ \E q \in last.pre.cams :
          /\ RowId(q) \in last.eligible
          /\ ~Eligible(q, last.now, LoadedConfig(appcfg))

\* C21: every successful reconciliation adds exactly one CheckRecord, and the check
\* numbers of the CheckRecords in the store increase strictly in the order of their
\* creation, over the whole life of the store.
C21_CheckNumbersIncrease ==
    /\ last.op = "save" => Len(db.checks) = Len(last.pre.checks) + 1
    /\ \A i, j \in DOMAIN db.checks : i < j => db.checks[i] < db.checks[j]

\* a monitor started by a restart has just recorded its first check in a store that
\* already holds the checks of the monitor before it
C21_CheckRecordedAfterRestart ==
    /\ last.op = "save"
    /\ last.m > 1
    /\ Actor.check_count = 1
    /\ last.pre.checks # <<>>
    /\ Len(db.checks) = Len(last.pre.checks) + 1

\* C22: a muted camera is skipped by the alert policy: check_and_send_alerts leaves
\* the record of a muted camera as it is and never counts it among the eligible
\* cameras, no digest is sent when every camera that is down is muted, and a muted
\* record becomes unmuted only in a reconciliation that stores it Online.
C22_MutedCameraSkipped ==
    /\ last.op = "alert" =>
           /\ \A q \in last.pre.cams : q.is_muted => q \in db.cams /\ RowId(q) \notin last.eligible
           /\ (\A q \in last.pre.cams : q.status # "Online" => q.is_muted) =>
                  last.mail = "none" /\ TransportCalls = {}
    /\ \A q \in last.pre.cams, r \in db.cams :
           (RowId(q) = RowId(r) /\ q.is_muted /\ ~r.is_muted) =>
               /\ last.op \in {"save", "save_failed"}
               /\ q.status # "Online"
               /\ r.status = "Online"

\* check_and_send_alerts has just run over a muted camera that is still down and
\* whose last alert is at least alert_frequency old
C22_MutedCameraEvaluated ==
    /\ last.op = "alert"
    /\ \E q \in last.pre.cams :
          /\ q.is_muted
          /\ q.status # "Online"
          /\ q.alert_email_count > 0
          /\ q.last_alert_time # None
          /\ last.now - q.last_alert_time >= Actor.cfg.alert_frequency

\* the events of the given type logged for the camera by the latest handler
EventsFor(event_type, cam) ==
    {i \in DOMAIN last.events : last.events[i] = <<event_type, RowKey(cam)>>}

\* C23: in a cycle whose digest is delivered, every eligible camera whose
\* alert_email_count was at least mute_after_n_alerts becomes muted with its count and
\* last_alert_time unchanged and one camera_muted event, and every other eligible
\* camera gets its count increased by exactly 1, last_alert_time set to the evaluation
\* time, is_muted left false and one mail_alert_triggered event.
C23_EligibleCameraMutedOrCounted ==
    (last.op = "alert" /\ last.mail = "ok") =>
        \A q \in last.pre.cams :
            RowId(q) \in last.eligible =>
                IF q.alert_email_count >= Actor.cfg.mute_after_n_alerts
                THEN /\ [q EXCEPT !.is_muted = TRUE] \in db.cams
                     /\ Cardinality(EventsFor("camera_muted", q)) = 1
                     /\ EventsFor("mail_alert_triggered", q) = {}
                ELSE /\ [q EXCEPT !.alert_email_count = q.alert_email_count + 1,
                                  !.last_alert_time = last.now] \in db.cams
                     /\ ~q.is_muted
                     /\ Cardinality(EventsFor("mail_alert_triggered", q)) = 1
                     /\ EventsFor("camera_muted", q) = {}

\* one delivered digest has just muted one camera and counted an alert for another
C23_MutedOneCountedAnother ==
    /\ last.op = "alert"
    /\ last.mail = "ok"
    /\ \E q1, q2 \in last.pre.cams :
          /\ RowId(q1) \in last.eligible
          /\ RowId(q2) \in last.eligible
          /\ q1.alert_email_count >= Actor.cfg.mute_after_n_alerts
          /\ q2.alert_email_count < Actor.cfg.mute_after_n_alerts

C25_RecurringAlertsSpacedByFrequency ==
    /\ \A r \in db.cams :
           r.alert_email_count > 0 => r.last_alert_time # None /\ r.last_alert_time <= clock
    /\ last.op = "alert" =>
           \A q \in last.pre.cams, r \in db.cams :
               (/\ RowId(q) = RowId(r)
                /\ q.alert_email_count > 0
                /\ r.alert_email_count > q.alert_email_count) =>
                   /\ q.last_alert_time # None
                   /\ last.now - q.last_alert_time >= Actor.cfg.alert_frequency
                   /\ r.last_alert_time = last.now

\* an evaluation has just counted the third alert of a camera
C25_ThirdAlertCounted ==
    /\ last.op = "alert"
    /\ \E q \in last.pre.cams, r \in db.cams :
          /\ RowId(q) = RowId(r)
          /\ q.alert_email_count = 2
          /\ r.alert_email_count = 3
          /\ r.status # "Online"

\* the keys of a key-value map that belong to the NVR
KeysOfNvr(map, nvr_ip) == {k \in DOMAIN map : StartsWith(k, nvr_ip \o <<"-">>)}

\* the latest handler was a request to this NVR that failed
PollFailed(nvr_ip) == last.op = "poll" /\ last.events = <<<<"nvr_error", nvr_ip>>>>

\* C26: after a failed request to an NVR, poll_results holds for that NVR exactly the
\* channels the snapshot knows, each with status System Error, down_check_count one
\* more than in the snapshot and last_online from the snapshot, or the time of the
\* failure if the snapshot has the channel Online; when the snapshot knows no channel
\* of the NVR, poll_results holds exactly one placeholder entry for it; and the failed
\* request leaves the entries of the other NVRs as they were.
C26_FailedRequestMarksKnownChannels ==
    /\ [](\A n \in {NvrA, NvrB} :
              PollFailed(n) =>
                  LET cds == Actor.current_db_state
                      pr == Actor.poll_results
                      known == KeysOfNvr(cds, n)
                  IN  IF known = {}
                      THEN /\ KeysOfNvr(pr, n) = {Key(n, Ch0)}
                           /\ pr[Key(n, Ch0)] = [status |-> "System Error",
                                                 last_online |-> last.now,
                                                 down_check_count |-> 1]
                      ELSE /\ KeysOfNvr(pr, n) = known
                           /\ \A k \in known :
                                  pr[k] = [status |-> "System Error",
                                           last_online |->
                                               IF cds[k].status = "Online"
                                               THEN last.now ELSE cds[k].last_online,
                                           down_check_count |-> cds[k].down_check_count + 1])
    /\ [][\A m \in Monitors :
             (/\ mon[m].pc = "poll"
              /\ mon'[m].pc \in {"poll", "save"}
              /\ mon'[m].todo = Tail(mon[m].todo)
              /\ mon'[m].seen[Head(mon[m].todo)].kind # "ok") =>
                 \A k \in DOMAIN mon[m].poll_results :
                     ~StartsWith(k, Head(mon[m].todo) \o <<"-">>) =>
                         /\ k \in DOMAIN mon'[m].poll_results
                         /\ mon'[m].poll_results[k] = mon[m].poll_results[k]]_vars

\* the request to the second NVR has just failed while the snapshot has one of its
\* channels Online and poll_results already holds the entries of the first NVR
C26_SecondNvrFailedAfterFirstAnswered ==
    /\ PollFailed(NvrB)
    /\ Key(NvrB, Ch1) \in DOMAIN Actor.current_db_state
    /\ Actor.current_db_state[Key(NvrB, Ch1)].status = "Online"
    /\ KeysOfNvr(Actor.poll_results, NvrA) # {}

\* C27: a stored camera that a reconciliation turns from Online to not Online gets the
\* time of that reconciliation as its last_online, and no step changes the
\* last_online of a camera that was not Online before it and is not Online after it.
C27_LastOnlineIsStartOfDowntime ==
    \A q \in last.pre.cams, r \in db.cams :
        (RowId(q) = RowId(r) /\ r.status # "Online") =>
            IF q.status = "Online"
            THEN last.op \in {"save", "save_failed"} /\ r.last_online = last.now
            ELSE r.last_online = q.last_online

\* a reconciliation has just stored, still not Online, a camera that went from Online
\* to not Online in an earlier cycle of the run
C27_StillDownSinceTransition ==
    /\ last.op = "save"
    /\ \E q \in last.pre.cams, r \in db.cams :
          /\ RowId(q) = RowId(r)
          /\ q.status # "Online"
          /\ r.status # "Online"
          /\ r.last_online > startup_sleep
          /\ r.last_online < last.now
          /\ r.down_check_count = 2

\* C28: in every run of consecutive answers in which a channel is not Online, the
\* camera_down event is logged at most once and only at the first answer of the run,
\* and it is logged when that first answer reports the channel offline.
C28_CameraDownOncePerEpisode ==
    /\ \A id \in AllIds :
           /\ episodes[id].downs <= 1
           /\ (episodes[id].checks >= 1 /\ episodes[id].first = "offline") =>
                  episodes[id].downs = 1
    /\ last.op = "poll" =>
           \A id \in AllIds :
               <<"camera_down", Key(id[1], id[2])>> \in Range(last.events) =>
                   episodes[id].checks = 1

\* a channel has just been answered offline for the second consecutive time, after a
\* camera_down event at the first
C28_SecondOfflineCheck ==
    /\ last.op = "poll"
    /\ \E id \in AllIds :
          /\ episodes[id].checks = 2
          /\ episodes[id].first = "offline"
          /\ episodes[id].downs >= 1
          /\ id[1] \in DOMAIN Actor.seen
          /\ Actor.seen[id[1]].kind = "ok"
          /\ id[2] \in DOMAIN Actor.seen[id[1]].chans
          /\ ~Actor.seen[id[1]].chans[id[2]]

\* the NVR whose request the monitor of the latest handler made last
LastPolled == Actor.cfg.nvr_configs[Len(Actor.cfg.nvr_configs) - Len(Actor.todo)]

\* the latest handler was a request that the NVR answered with no channel at all
PolledZeroChannels ==
    /\ last.op = "poll"
    /\ Actor.seen[LastPolled] = [kind |-> "ok", chans |-> <<>>]

\* C29: an answer with zero channels is handled like a failed request: poll_results
\* holds for the NVR the entries update_nvr_state_on_error writes (the channels of
\* the snapshot as System Error, or the placeholder), an nvr_error event is logged for
\* the NVR, and its summary keeps the cycle from being reported as all OK.
C29_ZeroChannelsHandledAsFailure ==
    PolledZeroChannels =>
        LET n == LastPolled
            cds == Actor.current_db_state
            pr == Actor.poll_results
            known == KeysOfNvr(cds, n)
            written == IF known = {} THEN {Key(n, Ch0)} ELSE known
        IN  /\ KeysOfNvr(pr, n) = written
            /\ \A k \in written : pr[k] = ErrorEntry(cds, k, "System Error", last.now)
            /\ <<"nvr_error", n>> \in Range(last.events)
            /\ Summary(n, Actor.seen[n]).status # "ok"
            /\ ~all_ok({Summary(i, Actor.seen[i]) : i \in DOMAIN Actor.seen})

\* an NVR whose channel the snapshot has Online has just answered with no channel
C29_ZeroChannelsFromKnownNvr ==
    /\ PolledZeroChannels
    /\ \E k \in KeysOfNvr(Actor.current_db_state, LastPolled) :
           Actor.current_db_state[k].status = "Online"

\* the cameras that the polls of the latest handler's monitor found Online in its
\* current cycle
PolledOnline ==
    {id \in AllIds : /\ Key(id[1], id[2]) \in DOMAIN Actor.poll_results
                     /\ Actor.poll_results[Key(id[1], id[2])].status = "Online"}

\* C30: the handlers of a cycle follow each other as poll, reconciliation, alert
\* policy with its dispatch, and a camera that the cycle's poll found Online is not
\* found eligible by the cycle's alert policy, is not listed in its digest, and keeps
\* its alert_email_count, is_muted and last_alert_time through it.
C30_PolledOnlineNotAlerted ==
    /\ last.op = "poll" => Actor.pc \in {"poll", "save"}
    /\ last.op \in {"save", "save_failed"} => Actor.pc = "alert"
    /\ last.op = "alert" =>
           /\ Actor.pc = "sleep"
           /\ \A id \in PolledOnline :
                  /\ id \notin last.eligible
                  /\ id \notin last.listed
                  /\ \A q \in last.pre.cams, r \in db.cams :
                         (RowId(q) = id /\ RowId(r) = id) =>
                             /\ r.alert_email_count = q.alert_email_count
                             /\ r.is_muted = q.is_muted
                             /\ r.last_alert_time = q.last_alert_time

\* the alert policy has just run in a cycle whose poll found a camera Online that
\* the store holds as down
C30_PolledOnlineStoredDown ==
    /\ last.op = "alert"
    /\ \E id \in PolledOnline, q \in last.pre.cams :
          RowId(q) = id /\ q.status # "Online"

\* every store state that has been committed up to and including the latest handler's
StoresCommitted == {db} \cup Range(last.commits)

\* C31: in every committed state of the store, a camera record with status Online has
\* alert_email_count 0, is_muted false and no last_alert_time.
C31_OnlineRecordHasNoAlertState ==
    \A store \in StoresCommitted : \A r \in store.cams :
        r.status = "Online" =>
            /\ r.alert_email_count = 0
            /\ ~r.is_muted
            /\ r.last_alert_time = None

\* a reconciliation has just committed the recovery of a camera that was muted
C31_MutedCameraBackOnline ==
    /\ last.op = "save"
    /\ \E q \in last.pre.cams, r \in db.cams :
          /\ RowId(q) = RowId(r)
          /\ q.is_muted
          /\ q.last_alert_time # None
          /\ r.status = "Online"

\* the first moment at which one of the two alert rules applies to the record if it
\* stays as it is
NextAlertDue(r, cfg) ==
    IF r.alert_email_count = 0
    THEN r.last_online + cfg.first_alert_delay
    ELSE r.last_alert_time + cfg.alert_frequency

\* C32: in every committed state of the store, a camera record has alert_email_count
\* above 0 exactly when it has a last_alert_time, so that for every record that is
\* down and not muted there is a moment at which the initial-alert rule or the
\* recurring-alert rule applies.
C32_CountedIffTimed ==
    \A store \in StoresCommitted : \A r \in store.cams :
        /\ r.alert_email_count > 0 <=> r.last_alert_time # None
        /\ (r.status # "Online" /\ ~r.is_muted) =>
               Eligible(r, NextAlertDue(r, Actor.cfg), Actor.cfg)

\* the alert policy has just committed a second alert for a camera that is not muted
C32_AlertedTwiceNotMuted ==
    /\ last.op = "alert"
    /\ \E r \in db.cams :
          /\ r.status # "Online"
          /\ ~r.is_muted
          /\ r.alert_email_count = 2
          /\ r.last_alert_time = last.now

\* the run never changes the mute threshold: every configuration the operator may
\* post has the threshold the application started with
ThresholdFixed == \A c \in env.cfgs : c.mute = appcfg.MUTE_AFTER_N_ALERTS

\* C33: with a mute threshold N that stays the same, no committed camera record has an
\* alert_email_count above N; and an evaluation increments the count of a record by
\* one, and only of a record whose count is below the threshold of the monitor.
C33_CountNeverAboveThreshold ==
    /\ ThresholdFixed =>
           \A store \in StoresCommitted : \A r \in store.cams :
               r.alert_email_count <= appcfg.MUTE_AFTER_N_ALERTS
    /\ \A q \in last.pre.cams, r \in db.cams :
           (RowId(q) = RowId(r) /\ r.alert_email_count > q.alert_email_count) =>
               /\ last.op = "alert"
               /\ q.alert_email_count < Actor.cfg.mute_after_n_alerts
               /\ r.alert_email_count = q.alert_email_count + 1

\* with a fixed threshold, an evaluation has just found a camera eligible whose count
\* had reached the threshold, and muted it without counting
C33_EligibleAtThreshold ==
    /\ ThresholdFixed
    /\ last.op = "alert"
    /\ \E q \in last.pre.cams, r \in db.cams :
          /\ RowId(q) = RowId(r)
          /\ q.alert_email_count = Actor.cfg.mute_after_n_alerts
          /\ RowId(q) \in last.eligible
          /\ r.is_muted
          /\ r.alert_email_count = q.alert_email_count

\* the two statuses of a camera that is down
DownStatuses == {"Offline", "System Error"}

\* C34: when a reconciliation changes a stored camera from Offline to System Error or
\* from System Error to Offline, it leaves last_online, alert_email_count, is_muted
\* and last_alert_time as they were, raises down_check_count by exactly 1 and logs no
\* camera_up; and the poll that found the other down status logs no camera_down.
C34_DownStatusChangeKeepsEpisode ==
    /\ last.op = "save" =>
           \A q \in last.pre.cams, r \in db.cams :
               (/\ RowId(q) = RowId(r)
                /\ q.status \in DownStatuses
                /\ r.status \in DownStatuses
                /\ q.status # r.status) =>
                   /\ r.last_online = q.last_online
                   /\ AlertFields(r) = AlertFields(q)
                   /\ r.down_check_count = q.down_check_count + 1
                   /\ <<"camera_up", RowKey(q)>> \notin Range(last.events)
    /\ last.op = "poll" =>
           \A q \in db.cams :
               (/\ q.nvr_ip = LastPolled
                /\ RowKey(q) \in DOMAIN Actor.poll_results
                /\ q.status \in DownStatuses
                /\ Actor.poll_results[RowKey(q)].status \in DownStatuses
                /\ Actor.poll_results[RowKey(q)].status # q.status) =>
                   <<"camera_down", RowKey(q)>> \notin Range(last.events)

\* a reconciliation has just turned an Offline record into a System Error record
C34_OfflineBecameError ==
    /\ last.op = "save"
    /\ \E q \in last.pre.cams, r \in db.cams :
          /\ RowId(q) = RowId(r)
          /\ q.status = "Offline"
          /\ r.status = "System Error"

\* the store has a record of the camera that is not Online
Down(id) == \E r \in db.cams : RowId(r) = id /\ r.status # "Online"

\* the store has a record of the camera that is muted
Muted(id) == \E r \in db.cams : RowId(r) = id /\ r.is_muted

\* the camera is down from the second polling interval to the end of the run
StaysDown(id) == [](clock >= 2 * polling_interval => Down(id))

\* from some moment on there is a monitor thread in run() that has not been stopped
MonitorKeepsRunning == <>[](\E m \in Monitors : Alive(m) /\ mon[m].running)

\* from some moment on no delivery fails
MailSucceedsEventually == <>[](last.mail # "fail")

MonitorOps == {"start", "poll", "save", "save_failed", "alert", "alert_raised", "loop"}

\* C37: a monitor whose service_stopped event has been logged (stop() has cleared its
\* running flag) logs no event afterwards, service_started included, and changes no
\* camera record.
C37_NothingAfterServiceStopped ==
    (last.op \in MonitorOps /\ ~Actor.running) =>
        /\ last.events = <<>>
        /\ db.cams = last.pre.cams

\* a monitor that had been stopped has just committed a reconciliation that changed
\* a camera record
C37_ReconciledAfterStop ==
    /\ last.op = "save"
    /\ ~Actor.running
    /\ db.cams # last.pre.cams

\* C38: every camera that an evaluation finds eligible and every camera listed in
\* its digest is a camera of an NVR in the NVR list of the monitor that evaluates.
C38_OnlyConfiguredNvrsAlerted ==
    last.op = "alert" =>
        \A id \in last.eligible \cup last.listed :
            id[1] \in Range(Actor.cfg.nvr_configs)

\* an evaluation has just run while the store holds a down record of an NVR that is
\* not in the monitor's NVR list
C38_RetiredNvrRecordDown ==
    /\ last.op = "alert"
    /\ \E q \in last.pre.cams :
          /\ q.status # "Online"
          /\ q.nvr_ip \notin Range(Actor.cfg.nvr_configs)

\* C39: a handler logs a camera_up event for a camera exactly when it is a
\* reconciliation that commits the camera's record going from not Online to Online,
\* and then it logs one; it logs none for a record it creates or for a record that
\* was Online.
C39_CameraUpOncePerRecovery ==
    /\ \A q \in last.pre.cams :
           Cardinality(EventsFor("camera_up", q)) =
               (IF /\ last.op = "save"
                   /\ q.status # "Online"
                   /\ \E r \in db.cams : RowId(r) = RowId(q) /\ r.status = "Online"
                THEN 1 ELSE 0)
    /\ \A i \in DOMAIN last.events :
           last.events[i][1] = "camera_up" =>
               \E q \in last.pre.cams : RowKey(q) = last.events[i][2]

\* a reconciliation that logged camera_up for a camera has failed to commit
C39_RecoveryNotCommitted ==
    /\ last.op = "save_failed"
    /\ \E q \in last.pre.cams :
          /\ q.status # "Online"
          /\ EventsFor("camera_up", q) # {}
          /\ q \in db.cams

\* the channel ids an NVR has reported in the cycle of the last handler
ReportedChannels(n) ==
    IF n \in DOMAIN Actor.seen /\ Actor.seen[n].kind = "ok"
    THEN DOMAIN Actor.seen[n].chans
    ELSE {}

\* C40: after a committed reconciliation, for every configured NVR n and every
\* channel id c it has reported in the cycle, the key n-c splits back into (n, c)
\* and is selected by the prefix filter of n, the store holds a record with
\* nvr_ip = n and channel_id = c that carries the status n reported; every key the
\* prefix filter of n selects is a key of n; and every record the reconciliation
\* has created, updated or pruned is a record of a configured NVR.
C40_KeyMapsBackToNvrAndChannel ==
    last.op = "save" =>
        LET nvrs == Range(Actor.cfg.nvr_configs)
        IN  /\ \A n \in nvrs : \A c \in ReportedChannels(n) :
                  /\ Split(Key(n, c)) = <<n, c>>
                  /\ Key(n, c) \in NvrCamKeys(n, Actor.poll_results)
                  /\ \E r \in db.cams :
                        /\ RowId(r) = <<n, c>>
                        /\ r.status = IF Actor.seen[n].chans[c] THEN "Online" ELSE "Offline"
            /\ \A n \in nvrs : \A k \in NvrCamKeys(n, Actor.poll_results) :
                  Split(k)[1] = n
            /\ \A r \in (db.cams \ last.pre.cams) \cup (last.pre.cams \ db.cams) :
                  r.nvr_ip \in nvrs

\* a committed reconciliation of a cycle in which the NVR whose name contains a
\* dash has reported a channel
C40_DashNvrReconciled ==
    /\ last.op = "save"
    /\ NvrC \in Range(Actor.cfg.nvr_configs)
    /\ Ch1 \in ReportedChannels(NvrC)

====
